---- MODULE Spec2Model ----
(***************************************************************************)
(* The snapshot consensus kernel of a mixin node: the round graph          *)
(* (kernel/round.go) and the snapshot handler (handleSnapshotInput,        *)
(* verifySnapshot, signSnapshot, verifyReferences, ...).                   *)
(*                                                                         *)
(* Hashes are modelled as the value they are computed from (an injective   *)
(* hash): a payload hash is the payload, a round hash is the record of the *)
(* node id, the round number and the list of payload hashes.  A signature  *)
(* is the record of its signer's key, the message it signs and a nonce k   *)
(* (one key can produce several different valid signatures of a message).  *)
(***************************************************************************)
EXTENDS Integers, Sequences, FiniteSets, TLC

\* ------------------------------------------------------------------ bounds
\* Transactions offered to the handler are 1..MaxTx (0 is the genesis one).
MaxTx == 3
\* Timestamps and clock readings are 0..MaxTime.
MaxTime == 2
\* The topological counter is not advanced beyond MaxTopo.
MaxTopo == 3
\* The signature pool holds at most MaxPool payload hashes of transactions
\* that are not persisted.
MaxPool == 1
\* In the four-validator network at most MaxInjected single-signature
\* copies are given to the handler.
MaxInjected == 4
\* At most MaxAnomalies times a call is given a malformed snapshot, a call
\* meets a collaborator call that fails, or the process is restarted.
MaxAnomalies == 1

\* config.SnapshotRoundGap, in clock ticks.
SnapshotRoundGap == 2

\* node.IdForNetwork: this node.
IdForNetwork == "N0"

\* The validator set of the two-validator network: node.ConsensusNodes, in
\* slice order, each with cn.IsAccepted().
TwoValidators ==
  << [id |-> "N0", accepted |-> TRUE], [id |-> "N1", accepted |-> TRUE] >>

\* The validator set of the four-validator network.
FourValidators ==
  << [id |-> "N0", accepted |-> TRUE], [id |-> "N1", accepted |-> TRUE],
     [id |-> "N2", accepted |-> TRUE], [id |-> "N3", accepted |-> TRUE] >>

\* A key that belongs to no consensus node.
OutsiderKey == "X"

VARIABLES
  ConsensusNodes,   \* node.ConsensusNodes
  CacheRound,       \* node.Graph.CacheRound : node id -> CacheRound
  FinalRound,       \* node.Graph.FinalRound : node id -> FinalRound
  FinalCache,       \* node.Graph.FinalCache (its entries, order abstracted)
  SnapshotsPool,    \* node.SnapshotsPool : payload hash -> signatures
  ConsensusCache,   \* node.ConsensusCache : the cache ids that hold a send stamp
  TopoCounter,      \* node.TopoCounter
  store,            \* the persistent store: the snapshots written, in write order
  last,             \* what the most recent operation was given and what it did
  anomalies,        \* the malformed snapshots, failed collaborator calls and restarts so far
  injected          \* the single-signature copies given to the handler so far

vars == << ConsensusNodes, CacheRound, FinalRound, FinalCache, SnapshotsPool,
           ConsensusCache, TopoCounter, store, last, anomalies, injected >>

\* ------------------------------------------------------------ basic values
Range(f) == { f[i] : i \in DOMAIN f }

\* The empty map (a nil or empty map[crypto.Hash]uint64).
NoLinks == << >>

NodeIds(cns) == { cns[i].id : i \in DOMAIN cns }

\* cn.IsAccepted()
IsAccepted(cn) == cn.accepted

\* crypto.Hash{}: the zero hash.
ZeroHash == [node |-> "none", number |-> 0, hashes |-> << >>]

\* s.Payload(): the snapshot without its signatures.  s.PayloadHash() and
\* crypto.NewHash(s.Payload()) are modelled by the payload itself.
Payload(s) ==
  [NodeId |-> s.NodeId, Transaction |-> s.Transaction,
   References |-> s.References, RoundNumber |-> s.RoundNumber,
   Timestamp |-> s.Timestamp]

\* key.Verify(msg, sig)
Verify(key, msg, sig) == sig.signer = key /\ sig.msg = msg

\* The signature s.Sign(key) makes over the payload (nonce k).
Sig(key, msg, k) == [signer |-> key, msg |-> msg, k |-> k]

\* s.Sign(node.Account.PrivateSpendKey): the node's signature is appended.
Sign(s) ==
  [s EXCEPT !.Signatures = Append(@, Sig(IdForNetwork, Payload(s), 0))]

\* The genesis snapshot of a node: round 0, timestamp 0, transaction 0.
GenesisSnapshot(n) ==
  [NodeId |-> n, Transaction |-> 0, References |-> << ZeroHash, ZeroHash >>,
   RoundNumber |-> 0, Timestamp |-> 0, Signatures |-> << >>]

GenesisStore(cns) ==
  [i \in DOMAIN cns |->
     [Snapshot |-> GenesisSnapshot(cns[i].id), TopologicalOrder |-> 0,
      RoundLinks |-> NoLinks]]

\* ------------------------------------------------------------ round model
\* sort.Slice(c.Snapshots, less) with less(i, j) = ts[i] <= ts[j]: for the
\* short slices of the model Go sorts by insertion, moving data[j] left
\* while less(j, j-1).
RECURSIVE InsertLeft(_, _)
InsertLeft(sorted, x) ==
  IF sorted = << >> THEN << x >>
  ELSE LET p == sorted[Len(sorted)] IN
       IF x.Timestamp <= p.Timestamp
       THEN Append(InsertLeft(SubSeq(sorted, 1, Len(sorted) - 1), x), p)
       ELSE Append(sorted, x)

RECURSIVE SortSlice(_)
SortSlice(snaps) ==
  IF snaps = << >> THEN << >>
  ELSE InsertLeft(SortSlice(SubSeq(snaps, 1, Len(snaps) - 1)), snaps[Len(snaps)])

\* crypto.NewHash(nodeId || BE64(number) || H(s1.Payload()) || ...)
RoundHash(nodeId, number, snaps) ==
  [node |-> nodeId, number |-> number,
   hashes |-> [i \in 1..Len(snaps) |-> Payload(snaps[i])]]

\* (c *CacheRound) asFinal()
asFinal(c) ==
  [NodeId |-> c.NodeId, Number |-> c.Number, Start |-> c.Start, End |-> c.End,
   Hash |-> RoundHash(c.NodeId, c.Number, SortSlice(c.Snapshots))]

\* (g *RoundGraph) UpdateFinalCache()
UpdateFinalCache(finalRound) ==
  { [NodeId |-> finalRound[n].NodeId, Number |-> finalRound[n].Number,
     Start |-> finalRound[n].Start] : n \in DOMAIN finalRound }

\* ------------------------------------------------------------------ store
\* store.SnapshotsReadSnapshotByTransactionHash(h) finds a snapshot.
SnapshotsReadSnapshotByTransactionHash(st, tx) ==
  \E i \in DOMAIN st : st[i].Snapshot.Transaction = tx

\* store.SnapshotsReadRoundLink(from, to): the link last written, 0 if none.
SnapshotsReadRoundLink(st, from, to) ==
  LET W == { i \in DOMAIN st : /\ st[i].Snapshot.NodeId = from
                               /\ to \in DOMAIN st[i].RoundLinks }
  IN IF W = {} THEN 0
     ELSE st[CHOOSE i \in W : \A j \in W : j <= i].RoundLinks[to]

\* The snapshots of a node's round in write order.
RECURSIVE SnapshotsOf(_, _, _)
SnapshotsOf(st, n, r) ==
  IF st = << >> THEN << >>
  ELSE LET rest == SnapshotsOf(SubSeq(st, 1, Len(st) - 1), n, r)
           s == st[Len(st)].Snapshot
       IN IF s.NodeId = n /\ s.RoundNumber = r THEN Append(rest, s) ELSE rest

\* A stable sort by timestamp.
RECURSIVE InsertStable(_, _)
InsertStable(sorted, x) ==
  IF sorted = << >> THEN << x >>
  ELSE LET p == sorted[Len(sorted)] IN
       IF x.Timestamp < p.Timestamp
       THEN Append(InsertStable(SubSeq(sorted, 1, Len(sorted) - 1), x), p)
       ELSE Append(sorted, x)

RECURSIVE SortStable(_)
SortStable(snaps) ==
  IF snaps = << >> THEN << >>
  ELSE InsertStable(SortStable(SubSeq(snaps, 1, Len(snaps) - 1)), snaps[Len(snaps)])

\* store.SnapshotsReadSnapshotsForNodeRound(n, r): sorted by timestamp.
SnapshotsReadSnapshotsForNodeRound(st, n, r) == SortStable(SnapshotsOf(st, n, r))

\* store.SnapshotsReadRoundMeta(n): the highest round written for n and the
\* timestamp of the first snapshot written in it.
SnapshotsReadRoundMeta(st, n) ==
  LET R == { st[i].Snapshot.RoundNumber :
               i \in { j \in DOMAIN st : st[j].Snapshot.NodeId = n } }
      number == CHOOSE r \in R : \A q \in R : q <= r
  IN << number, SnapshotsOf(st, n, number)[1].Timestamp >>

\* store.SnapshotsWriteSnapshot(topo)
SnapshotsWriteSnapshot(st, topo) == Append(st, topo)

\* ------------------------------------------------------------ round graph
Max(S) == CHOOSE x \in S : \A y \in S : y <= x

\* loadHeadRoundForNode panics: a snapshot of the head round is older than
\* the round's start.
loadHeadRoundForNodePanics(st, n) ==
  LET meta == SnapshotsReadRoundMeta(st, n)
      snaps == SnapshotsReadSnapshotsForNodeRound(st, n, meta[1])
  IN \E i \in DOMAIN snaps : snaps[i].Timestamp < meta[2]

\* loadHeadRoundForNode: the CacheRound of the head round.
loadHeadRoundForNode(st, n) ==
  LET meta == SnapshotsReadRoundMeta(st, n)
      snaps == SnapshotsReadSnapshotsForNodeRound(st, n, meta[1])
  IN [NodeId |-> n, Number |-> meta[1], Start |-> meta[2],
      End |-> Max({0} \cup { snaps[i].Timestamp : i \in DOMAIN snaps }),
      Snapshots |-> snaps]

\* loadFinalRoundForNode panics: snapshots[0] of an empty round is an index
\* out of range; a timestamp outside [start, end] is the explicit panic.
loadFinalRoundForNodePanics(st, n, number) ==
  LET snaps == SnapshotsReadSnapshotsForNodeRound(st, n, number) IN
  \/ snaps = << >>
  \/ \E i \in DOMAIN snaps :
        \/ snaps[i].Timestamp < snaps[1].Timestamp
        \/ snaps[i].Timestamp > snaps[Len(snaps)].Timestamp

\* loadFinalRoundForNode
loadFinalRoundForNode(st, n, number) ==
  LET snaps == SnapshotsReadSnapshotsForNodeRound(st, n, number) IN
  [NodeId |-> n, Number |-> number, Start |-> snaps[1].Timestamp,
   End |-> snaps[Len(snaps)].Timestamp, Hash |-> RoundHash(n, number, snaps)]

\* The number of the final round LoadRoundGraph loads for a node.
finalRoundNumber(cache) ==
  IF cache.Number = 0 THEN cache.Number ELSE cache.Number - 1

\* LoadRoundGraph(store) panics.
LoadRoundGraphPanics(st, ids) ==
  \E n \in ids :
     \/ loadHeadRoundForNodePanics(st, n)
     \/ loadFinalRoundForNodePanics(st, n,
           finalRoundNumber(loadHeadRoundForNode(st, n)))

\* graph.CacheRound after LoadRoundGraph(store).
LoadCacheRound(st, ids) ==
  [n \in ids |->
     LET cache == loadHeadRoundForNode(st, n) IN
     IF cache.Number = 0
     THEN [NodeId |-> n, Number |-> 1, Start |-> 0, End |-> 0,
           Snapshots |-> << >>]
     ELSE cache]

\* graph.FinalRound after LoadRoundGraph(store).
LoadFinalRound(st, ids) ==
  [n \in ids |->
     loadFinalRoundForNode(st, n, finalRoundNumber(loadHeadRoundForNode(st, n)))]

\* --------------------------------------------------------------- verifier
\* The inner loop of clearConsensusSignatures: sig is appended once for
\* every accepted consensus node whose key verifies it.
RECURSIVE VerifiedCopies(_, _, _)
VerifiedCopies(cns, msg, sig) ==
  IF cns = << >> THEN << >>
  ELSE LET rest == VerifiedCopies(Tail(cns), msg, sig) IN
       IF IsAccepted(Head(cns)) /\ Verify(Head(cns).id, msg, sig)
       THEN << sig >> \o rest
       ELSE rest

\* The outer loop of clearConsensusSignatures, filter being the signatures
\* already seen.
RECURSIVE ClearSignatures(_, _, _, _)
ClearSignatures(cns, msg, sigs, filter) ==
  IF sigs = << >> THEN << >>
  ELSE IF Head(sigs) \in filter
       THEN ClearSignatures(cns, msg, Tail(sigs), filter)
       ELSE VerifiedCopies(cns, msg, Head(sigs))
              \o ClearSignatures(cns, msg, Tail(sigs), filter \cup {Head(sigs)})

\* node.clearConsensusSignatures(s)
clearConsensusSignatures(cns, s) ==
  [s EXCEPT !.Signatures = ClearSignatures(cns, Payload(s), @, {})]

\* verifyFinalization with a threshold that is met at 2n/3 signatures.
verifyFinalizationAtLeast(cns, s) ==
  Len(s.Signatures) >= (Len(cns) * 2) \div 3

\* node.verifyFinalization(s)
verifyFinalization(cns, s) ==
  Len(s.Signatures) > (Len(cns) * 2) \div 3

\* node.verifyReferences(self, s).  err is "nil", "handled" (an error with
\* handled = true), "store" (an error with handled = false) or "panic".
\* A round hash names its node, so at most one final round matches ref1 and
\* the order of the map iteration does not matter.
verifyReferences(self, s, finalRound, st, readOk) ==
  LET ref0 == s.References[1]
      ref1 == s.References[2]
      M == { n \in DOMAIN finalRound :
               ~ (finalRound[n].NodeId = s.NodeId \/ finalRound[n].Hash # ref1) }
  IN IF ref0 = ref1 THEN [links |-> NoLinks, err |-> "handled"]
     ELSE IF ref0 # self.Hash THEN [links |-> NoLinks, err |-> "handled"]
     ELSE IF s.NodeId # self.NodeId THEN [links |-> NoLinks, err |-> "panic"]
     ELSE IF M = {} THEN [links |-> NoLinks, err |-> "handled"]
     ELSE LET final == finalRound[CHOOSE n \in M : TRUE]
              links == (self.NodeId :> self.Number) @@ (final.NodeId :> final.Number)
          IN IF ~ readOk THEN [links |-> links, err |-> "store"]
             ELSE IF links[self.NodeId] < SnapshotsReadRoundLink(st, s.NodeId, self.NodeId)
                  THEN [links |-> links, err |-> "handled"]
             ELSE IF links[final.NodeId] < SnapshotsReadRoundLink(st, s.NodeId, final.NodeId)
                  THEN [links |-> links, err |-> "handled"]
             ELSE [links |-> links, err |-> "nil"]

\* The merge loop without its filter: every signature of the pool is
\* appended.
MergeSignaturesUnfiltered(sigs, osigs) == sigs \o osigs

\* The merge loop of verifySnapshot: the pool's signatures not yet in sigs
\* are appended.
RECURSIVE MergeSignatures(_, _)
MergeSignatures(sigs, osigs) ==
  IF osigs = << >> THEN sigs
  ELSE IF Head(osigs) \in Range(sigs)
       THEN MergeSignatures(sigs, Tail(osigs))
       ELSE MergeSignatures(Append(sigs, Head(osigs)), Tail(osigs))

\* The round snapshots a seal finds not finalized (the panic of lines 200
\* and 251).
SealPanics(cns, cache, ts) ==
  /\ ts >= SnapshotRoundGap + cache.Start
  /\ Len(cache.Snapshots) # 0
  /\ \E i \in DOMAIN cache.Snapshots : ~ verifyFinalization(cns, cache.Snapshots[i])

\* The round advance of verifySnapshot (lines 194-212): the proposed cache.
verifyCache(cache, s) ==
  IF s.Timestamp >= SnapshotRoundGap + cache.Start
  THEN IF Len(cache.Snapshots) = 0
       THEN [cache EXCEPT !.Start = s.Timestamp]
       ELSE [NodeId |-> s.NodeId, Number |-> cache.Number + 1,
             Start |-> s.Timestamp, End |-> s.Timestamp, Snapshots |-> << >>]
  ELSE cache

\* The round advance of verifySnapshot (lines 194-212): the proposed final.
verifyFinal(cache, final, s) ==
  IF s.Timestamp >= SnapshotRoundGap + cache.Start /\ Len(cache.Snapshots) # 0
  THEN asFinal(cache)
  ELSE final

\* node.SnapshotsPool[s.PayloadHash()]
PoolSignatures(pool, s) ==
  IF Payload(s) \in DOMAIN pool THEN pool[Payload(s)] ELSE << >>

\* What verifySnapshot returns: links, cache, final, err ("nil", "store" or
\* "panic"), the snapshot with the signatures merged into it, the pool, and
\* the branch that returned.
Verified(links, cache, final, err, s, pool, branch) ==
  [links |-> links, cache |-> cache, final |-> final, err |-> err, s |-> s,
   pool |-> pool, branch |-> branch]

\* The signature-merge branch of verifySnapshot (lines 171-191), r being
\* what verifyReferences returned.
verifyMerge(cache, final, pool, s, r) ==
  IF r.err # "nil"
  THEN Verified(r.links, cache, final,
                IF r.err = "handled" THEN "nil" ELSE r.err, s, pool,
                "merge_badref")
  ELSE Verified(r.links, cache, final, "nil",
                [s EXCEPT !.Signatures = MergeSignatures(@, PoolSignatures(pool, s))],
                (Payload(s) :> MergeSignatures(s.Signatures, PoolSignatures(pool, s)))
                   @@ pool,
                "merge")

\* The end of verifySnapshot (lines 214-226), cache and final being the
\* rounds after the round advance.
verifyAligned(finalRound, pool, st, s, readOk, cache, final) ==
  IF s.RoundNumber # cache.Number \/ s.Timestamp < cache.End
  THEN Verified(NoLinks, cache, final, "nil", s, pool, "misaligned")
  ELSE CHOOSE v \in
         { Verified(r.links, cache, final,
                    IF r.err = "handled" THEN "nil" ELSE r.err, s, pool,
                    IF r.err = "nil" THEN "verified" ELSE "verify_badref") :
             r \in { verifyReferences(final, s, finalRound, st, readOk) } } : TRUE

\* node.verifySnapshot(s)
verifySnapshot(cns, cacheRound, finalRound, pool, st, s, readOk) ==
  IF Len(PoolSignatures(pool, s)) > 0 \/ verifyFinalization(cns, s)
  THEN CHOOSE v \in
         { verifyMerge(cacheRound[s.NodeId], finalRound[s.NodeId], pool, s, r) :
             r \in { verifyReferences(finalRound[s.NodeId], s, finalRound, st,
                                      readOk) } } : TRUE
  ELSE IF SealPanics(cns, cacheRound[s.NodeId], s.Timestamp)
  THEN Verified(NoLinks, cacheRound[s.NodeId], finalRound[s.NodeId], "panic",
                s, pool, "seal_panic")
  ELSE CHOOSE v \in
         { verifyAligned(finalRound, pool, st, s, readOk, c, f) :
             c \in { verifyCache(cacheRound[s.NodeId], s) },
             f \in { verifyFinal(cacheRound[s.NodeId], finalRound[s.NodeId], s) } } :
         TRUE

\* ----------------------------------------------------------------- signer
\* The loop over the clock leaving at a reading equal to cache.End.
RECURSIVE signTimestampNotBefore(_, _)
signTimestampNotBefore(cache, readings) ==
  IF readings = << >> THEN 0
  ELSE IF Head(readings) >= cache.End THEN Head(readings)
       ELSE signTimestampNotBefore(cache, Tail(readings))

\* The loop of signSnapshot over the clock: readings are the successive
\* values of time.Now(); the timestamp is the first one that passes the
\* test against cache.End.  0 when none of the readings passes.
RECURSIVE signTimestamp(_, _)
signTimestamp(cache, readings) ==
  IF readings = << >> THEN 0
  ELSE IF Head(readings) > cache.End THEN Head(readings)
       ELSE signTimestamp(cache, Tail(readings))

\* The round advance of signSnapshot (lines 245-263): the proposed cache.
signCache(cache, s) ==
  LET c == IF s.Timestamp >= SnapshotRoundGap + cache.Start
           THEN IF Len(cache.Snapshots) = 0
                THEN [cache EXCEPT !.Start = s.Timestamp]
                ELSE [NodeId |-> s.NodeId, Number |-> cache.Number + 1,
                      Start |-> s.Timestamp, End |-> 0, Snapshots |-> << >>]
           ELSE cache
  IN [c EXCEPT !.End = s.Timestamp]

\* The round advance of signSnapshot (lines 245-263): the proposed final.
signFinal(cache, final, s) ==
  IF s.Timestamp >= SnapshotRoundGap + cache.Start /\ Len(cache.Snapshots) # 0
  THEN asFinal(cache)
  ELSE final

\* The loop of signSnapshot over node.Graph.FinalRound, visited in the
\* order the map iteration happens to take; now is the clock reading.
RECURSIVE bestFinal(_, _, _, _, _)
bestFinal(order, best, finalRound, s, now) ==
  IF order = << >> THEN best
  ELSE LET r == finalRound[Head(order)] IN
       bestFinal(Tail(order),
                 IF r.NodeId # s.NodeId /\ r.Start >= best.Start /\ r.End < now
                 THEN r ELSE best,
                 finalRound, s, now)

\* The snapshot is a fresh one of this node, which signSnapshot stamps.
isFresh(s) ==
  ~ (s.NodeId # IdForNetwork \/ Len(s.Signatures) # 0 \/ s.Timestamp # 0)

\* The end of signSnapshot (lines 265-277), s carrying its timestamp, cache
\* and final being the rounds after the round advance, best the final round
\* the loop chose.
signReferences(s, cache, final, best) ==
  IF best.NodeId = final.NodeId
  THEN [cache |-> cache, final |-> final, s |-> s, panic |-> TRUE]
  ELSE [cache |-> cache, final |-> final,
        s |-> [s EXCEPT !.RoundNumber = cache.Number,
                        !.References = << final.Hash, best.Hash >>],
        panic |-> FALSE]

\* signSnapshot from its round advance on (lines 245-277), s carrying its
\* timestamp.
signStamped(cns, cache, final, finalRound, s, clock) ==
  IF SealPanics(cns, cache, s.Timestamp)
  THEN [cache |-> cache, final |-> final, s |-> s, panic |-> TRUE]
  ELSE CHOOSE v \in
         { signReferences(s, signCache(cache, s), f,
                          bestFinal(clock.order,
                                    [NodeId |-> f.NodeId, Number |-> 0,
                                     Start |-> 0, End |-> 0, Hash |-> ZeroHash],
                                    finalRound, s, clock.now)) :
             f \in { signFinal(cache, final, s) } } : TRUE

\* node.signSnapshot(s): cache, final, the snapshot as it leaves, and
\* whether signSnapshot panics.  clock.readings are the clock readings of
\* the timestamp loop, clock.now the one of the loop over the final rounds,
\* clock.order the order of that loop.
signSnapshot(cns, cacheRound, finalRound, s, clock) ==
  IF ~ isFresh(s)
  THEN [cache |-> cacheRound[s.NodeId], final |-> finalRound[s.NodeId],
        s |-> s, panic |-> FALSE]
  ELSE signStamped(cns, cacheRound[s.NodeId], finalRound[s.NodeId], finalRound,
                   [s EXCEPT !.Timestamp =
                      signTimestamp(cacheRound[s.NodeId], clock.readings)],
                   clock)

\* node.sign(s): the snapshot signed and the pool.
sign(cns, pool, s) ==
  CHOOSE v \in
    { [s |-> s1, pool |-> (Payload(s1) :> s1.Signatures) @@ pool] :
        s1 \in { clearConsensusSignatures(cns, Sign(s)) } } : TRUE

\* ---------------------------------------------------------------- handler
\* node.TopoCounter.Next()
TopoNext(counter) == counter + 1

\* The rebroadcast loop of a snapshot of this node (lines 69-83) over the
\* consensus nodes left: cc is the send cache, elapsed tells whether the
\* stamps it holds are older than SnapshotRoundGap, failAt is the send that
\* fails (0: none), sent the sends made so far.
RECURSIVE sendToPeers(_, _, _, _, _, _)
sendToPeers(cns, h, cc, elapsed, failAt, sent) ==
  IF cns = << >> THEN [cc |-> cc, err |-> FALSE, sent |-> sent]
  ELSE LET cacheId == << h, Head(cns).id >> IN
       IF ~ IsAccepted(Head(cns)) \/ (cacheId \in cc /\ ~ elapsed)
       THEN sendToPeers(Tail(cns), h, cc, elapsed, failAt, sent)
       ELSE IF sent + 1 = failAt
            THEN [cc |-> cc, err |-> TRUE, sent |-> sent + 1]
            ELSE sendToPeers(Tail(cns), h, cc \cup {cacheId}, elapsed, failAt,
                             sent + 1)

\* The rebroadcast of handleSnapshotInput (lines 68-90).
rebroadcast(cns, cc, s, elapsed, failAt) ==
  IF IdForNetwork = s.NodeId
  THEN sendToPeers(cns, Payload(s), cc, elapsed, failAt, 0)
  ELSE [cc |-> cc, err |-> failAt = 1, sent |-> 1]

\* The state of the node and what a call reports.
NodeState(cacheRound, finalRound, finalCache, pool, cc, counter, st) ==
  [CacheRound |-> cacheRound, FinalRound |-> finalRound,
   FinalCache |-> finalCache, SnapshotsPool |-> pool, ConsensusCache |-> cc,
   TopoCounter |-> counter, store |-> st]

\* The way the references of a snapshot stand to the graph: "same" when
\* the two are equal, "badself" when references[0] is neither the hash of
\* the producer's final round nor the hash its cache round would seal to at
\* the snapshot's timestamp, "advanced" when it is the latter only,
\* "badother" when references[1] is no other node's final hash, else "ok".
refCase(cacheRound, finalRound, s) ==
  IF s.References[1] = s.References[2] THEN "same"
  ELSE IF s.References[1] # finalRound[s.NodeId].Hash
  THEN IF s.References[1] =
            verifyFinal(cacheRound[s.NodeId], finalRound[s.NodeId], s).Hash
       THEN "advanced" ELSE "badself"
  ELSE IF \E n \in DOMAIN finalRound :
            n # s.NodeId /\ finalRound[n].Hash = s.References[2] THEN "ok"
  ELSE "badother"

\* What a call reports: ret is what it returns ("nil", "err" or "panic"),
\* outcome the place it returned from, branch the branch verifySnapshot
\* took, written the record passed to SnapshotsWriteSnapshot, sent the
\* number of SendSnapshotMessage calls, stamp the timestamp of the snapshot
\* as the call left it.
Report(ret, outcome, branch, written, sent, s) ==
  [ret |-> ret, outcome |-> outcome, branch |-> branch, written |-> written,
   sent |-> sent, stamp |-> s.Timestamp]

\* A call's result: the state it leaves and its report.
Result(state, report) == [state |-> state, report |-> report]

\* A return that does not run the deferred UpdateFinalCache.
ExitWithoutUpdate(n) == n

\* The deferred node.Graph.UpdateFinalCache().
Exit(n) == [n EXCEPT !.FinalCache = UpdateFinalCache(n.FinalRound)]

\* The number of the send that env.fault fails.
FailAt(env) ==
  IF env.fault = "send1" THEN 1 ELSE IF env.fault = "send2" THEN 2 ELSE 0

\* handleSent with the commit of the final round (line 93) left out.
handleSentCacheOnly(n, s, cache, final, branch, rb) ==
  IF rb.err
  THEN Result(Exit([n EXCEPT !.ConsensusCache = rb.cc]),
              Report("err", "send_error", branch, << >>, rb.sent, s))
  ELSE Result(Exit([n EXCEPT !.ConsensusCache = rb.cc,
                             !.CacheRound = [@ EXCEPT ![s.NodeId] = cache]]),
              Report("nil", "sent", branch, << >>, rb.sent, s))

\* handleSent committing the cache round with the snapshot, which is not
\* finalized, appended to it.
handleSentAppending(n, s, cache, final, branch, rb) ==
  IF rb.err
  THEN Result(Exit([n EXCEPT !.ConsensusCache = rb.cc]),
              Report("err", "send_error", branch, << >>, rb.sent, s))
  ELSE Result(Exit([n EXCEPT !.ConsensusCache = rb.cc,
                             !.CacheRound = [@ EXCEPT ![s.NodeId] =
                                 [cache EXCEPT !.Snapshots = Append(@, s)]],
                             !.FinalRound = [@ EXCEPT ![s.NodeId] = final]]),
              Report("nil", "sent", branch, << >>, rb.sent, s))

\* The rebroadcast and the commit of handleSnapshotInput (lines 68-94): n is
\* the state with the signed snapshot s in the pool, rb what the rebroadcast
\* returned.
handleSent(n, s, cache, final, branch, rb) ==
  IF rb.err
  THEN Result(Exit([n EXCEPT !.ConsensusCache = rb.cc]),
              Report("err", "send_error", branch, << >>, rb.sent, s))
  ELSE Result(Exit([n EXCEPT !.ConsensusCache = rb.cc,
                             !.CacheRound = [@ EXCEPT ![s.NodeId] = cache],
                             !.FinalRound = [@ EXCEPT ![s.NodeId] = final]]),
              Report("nil", "sent", branch, << >>, rb.sent, s))

\* handleFinalized taking the counter back when the write fails.
handleFinalizedCounterRestored(n, s, cache, final, branch, env, topo) ==
  IF env.fault = "write"
  THEN Result(Exit([n EXCEPT !.TopoCounter = @ - 1]),
              Report("err", "write_error", branch, << topo >>, 0, s))
  ELSE Result(Exit([n EXCEPT
                      !.store = SnapshotsWriteSnapshot(@, topo),
                      !.CacheRound = [@ EXCEPT ![s.NodeId] =
                          [cache EXCEPT !.Snapshots = Append(@, s),
                                        !.End = s.Timestamp]],
                      !.FinalRound = [@ EXCEPT ![s.NodeId] = final]]),
              Report("nil", "finalized", branch, << topo >>, 0, s))

\* handleFinalized working on the rounds of the graph instead of copies:
\* the snapshot is in the cache round although the write failed.
handleFinalizedInPlace(n, s, cache, final, branch, env, topo) ==
  IF env.fault = "write"
  THEN Result(Exit([n EXCEPT
                      !.CacheRound = [@ EXCEPT ![s.NodeId] =
                          [cache EXCEPT !.Snapshots = Append(@, s),
                                        !.End = s.Timestamp]]]),
              Report("err", "write_error", branch, << topo >>, 0, s))
  ELSE Result(Exit([n EXCEPT
                      !.store = SnapshotsWriteSnapshot(@, topo),
                      !.CacheRound = [@ EXCEPT ![s.NodeId] =
                          [cache EXCEPT !.Snapshots = Append(@, s),
                                        !.End = s.Timestamp]],
                      !.FinalRound = [@ EXCEPT ![s.NodeId] = final]]),
              Report("nil", "finalized", branch, << topo >>, 0, s))

\* The finalization branch of handleSnapshotInput (lines 45-58), n being
\* the state with the counter advanced and topo the record to write.
handleFinalized(n, s, cache, final, branch, env, topo) ==
  IF env.fault = "write"
  THEN Result(Exit(n), Report("err", "write_error", branch, << topo >>, 0, s))
  ELSE Result(Exit([n EXCEPT
                      !.store = SnapshotsWriteSnapshot(@, topo),
                      !.CacheRound = [@ EXCEPT ![s.NodeId] =
                          [cache EXCEPT !.Snapshots = Append(@, s),
                                        !.End = s.Timestamp]],
                      !.FinalRound = [@ EXCEPT ![s.NodeId] = final]]),
              Report("nil", "finalized", branch, << topo >>, 0, s))

\* handleSnapshotInput from the finalization check on (lines 44-94): n is
\* the state verifySnapshot left, s the snapshot, links, cache and final
\* what signSnapshot or verifySnapshot returned.
handleVerified(cns, n, s, links, cache, final, branch, env) ==
  IF verifyFinalization(cns, s)
  THEN handleFinalized([n EXCEPT !.TopoCounter = TopoNext(@)], s, cache, final,
                       branch, env,
                       [Snapshot |-> s,
                        TopologicalOrder |-> TopoNext(n.TopoCounter),
                        RoundLinks |-> links])
  ELSE IF env.fault = "lock"
  THEN Result(Exit(n), Report("nil", "lock_error", branch, << >>, 0, s))
  ELSE CHOOSE v \in
         { handleSent([n EXCEPT !.SnapshotsPool = sd.pool], sd.s, cache, final,
                      branch,
                      rebroadcast(cns, n.ConsensusCache, sd.s, env.elapsed,
                                  FailAt(env))) :
             sd \in { sign(cns, n.SnapshotsPool, s) } } : TRUE

\* handleSnapshotInput from verifySnapshot on (lines 36-94), sg being what
\* signSnapshot returned.
handleSigned(cns, n, sg, env) ==
  IF sg.panic
  THEN Result(Exit(n), Report("panic", "sign_panic", "none", << >>, 0, sg.s))
  ELSE IF sg.s.NodeId # IdForNetwork \/ Len(sg.s.Signatures) > 1
  THEN CHOOSE v \in
         { IF vf.err # "nil"
           THEN Result(Exit([n EXCEPT !.SnapshotsPool = vf.pool]),
                       Report(IF vf.err = "panic" THEN "panic" ELSE "err",
                              "verify_error", vf.branch, << >>, 0, vf.s))
           ELSE handleVerified(cns, [n EXCEPT !.SnapshotsPool = vf.pool], vf.s,
                               vf.links, vf.cache, vf.final, vf.branch, env) :
             vf \in { verifySnapshot(cns, n.CacheRound, n.FinalRound,
                                     n.SnapshotsPool, n.store, sg.s,
                                     env.fault # "link_read") } } : TRUE
  ELSE handleVerified(cns, n, sg.s, NoLinks, sg.cache, sg.final, "none", env)

\* handleSnapshotInput without the return on a snapshot found in the store
\* (lines 19-21).
handleSnapshotInputNoDedup(cns, n, s, env) ==
  IF env.fault = "dedup_read"
  THEN Result(n, Report("nil", "dedup_error", "none", << >>, 0, s))
  ELSE IF env.fault = "validate"
  THEN Result(n, Report("nil", "invalid_tx", "none", << >>, 0, s))
  ELSE CHOOSE v \in
         { handleSigned(cns, n, sg, env) :
             sg \in { signSnapshot(cns, n.CacheRound, n.FinalRound,
                                   clearConsensusSignatures(cns, s),
                                   env.clock) } } : TRUE

\* node.handleSnapshotInput(s) from the state n: the state it leaves and its
\* report.  env.fault is the collaborator call that fails ("none",
\* "dedup_read", "validate", "link_read", "write", "lock", "send1", "send2"),
\* env.elapsed and env.clock are the clock readings.
handleSnapshotInput(cns, n, s, env) ==
  IF env.fault = "dedup_read"
  THEN Result(n, Report("nil", "dedup_error", "none", << >>, 0, s))
  ELSE IF SnapshotsReadSnapshotByTransactionHash(n.store, s.Transaction)
  THEN Result(n, Report("nil", "duplicate", "none", << >>, 0, s))
  ELSE IF env.fault = "validate"
  THEN Result(n, Report("nil", "invalid_tx", "none", << >>, 0, s))
  ELSE CHOOSE v \in
         { handleSigned(cns, n, sg, env) :
             sg \in { signSnapshot(cns, n.CacheRound, n.FinalRound,
                                   clearConsensusSignatures(cns, s),
                                   env.clock) } } : TRUE

\* ----------------------------------------------------------------- inputs
Transactions == 1..MaxTx
Timestamps == 1..MaxTime

\* The transactions the store or the pool hold.
KnownTransactions ==
  { store[i].Snapshot.Transaction : i \in DOMAIN store }
    \cup { p.Transaction : p \in DOMAIN SnapshotsPool }

\* Transactions are opaque: a new one is the least one not yet known.
OfferedTransactions ==
  { tx \in Transactions \ KnownTransactions :
      \A u \in 1..(tx - 1) : u \in KnownTransactions }

\* The payload a well-behaved producer n gives the snapshot of tx at ts that
\* refers to the final round of m: its round and its own reference are
\* those of its round advance at ts.
HonestPayload(n, m, tx, ts) ==
  LET at == [NodeId |-> n, Timestamp |-> ts] IN
  [NodeId |-> n, Transaction |-> tx,
   References |-> << verifyFinal(CacheRound[n], FinalRound[n], at).Hash,
                     FinalRound[m].Hash >>,
   RoundNumber |-> verifyCache(CacheRound[n], at).Number,
   Timestamp |-> ts]

\* The ways a payload is malformed.
PayloadDeviations == { "same_refs", "bad_self", "bad_other", "wrong_round" }

Deviate(p, d) ==
  CASE d = "none" -> p
    [] d = "same_refs" -> [p EXCEPT !.References = << @[1], @[1] >>]
    [] d = "bad_self" -> [p EXCEPT !.References = << ZeroHash, @[2] >>]
    [] d = "bad_other" -> [p EXCEPT !.References = << @[1], ZeroHash >>]
    [] d = "wrong_round" -> [p EXCEPT !.RoundNumber = @ + 1]

\* The signatures of the validators in S over msg, in slice order.
RECURSIVE SignaturesOf(_, _, _)
SignaturesOf(cns, S, msg) ==
  IF cns = << >> THEN << >>
  ELSE (IF Head(cns).id \in S THEN << Sig(Head(cns).id, msg, 0) >> ELSE << >>)
         \o SignaturesOf(Tail(cns), S, msg)

\* The signature lists of well-behaved senders: the signature of the
\* producer and of some more validators.
HonestSignatures(cns, msg) ==
  { SignaturesOf(cns, S, msg) :
      S \in { T \in SUBSET NodeIds(cns) : msg.NodeId \in T } }

\* Malformed signature lists: two different signatures of one validator; a
\* signature twice, followed by one of a key that is no validator's.
DeviantSignatures(cns, msg) ==
  LET other == CHOOSE n \in NodeIds(cns) : n # IdForNetwork IN
  { << Sig(other, msg, 0), Sig(other, msg, 1) >>,
    << Sig(other, msg, 0), Sig(other, msg, 0), Sig(OutsiderKey, msg, 0) >> }

WithSignatures(p, sigs) ==
  [NodeId |-> p.NodeId, Transaction |-> p.Transaction,
   References |-> p.References, RoundNumber |-> p.RoundNumber,
   Timestamp |-> p.Timestamp, Signatures |-> sigs]

\* The payloads well-behaved producers give a new transaction.
NewPayloads ==
  UNION { { HonestPayload(n, m, tx, ts) :
              m \in DOMAIN CacheRound \ {n},
              tx \in OfferedTransactions, ts \in Timestamps } :
          n \in DOMAIN CacheRound }

\* The payloads of well-behaved producers, and those in the pool (a
\* snapshot that is sent again).
HonestPayloads == NewPayloads \cup DOMAIN SnapshotsPool

\* The well-formed snapshots offered to the handler.
HonestSnapshots ==
  UNION { { WithSignatures(p, sigs) :
              sigs \in HonestSignatures(ConsensusNodes, p) } :
          p \in HonestPayloads }

\* The malformed snapshots offered to the handler: a malformed payload, or
\* a malformed signature list.
MalformedSnapshots ==
  UNION { { WithSignatures(Deviate(p, x), sigs) :
              sigs \in HonestSignatures(ConsensusNodes, Deviate(p, x)) } :
          p \in NewPayloads, x \in PayloadDeviations }
    \cup UNION { { WithSignatures(p, sigs) :
              sigs \in DeviantSignatures(ConsensusNodes, p) } :
          p \in NewPayloads }

\* The fresh snapshots this node proposes.
FreshSnapshots ==
  { [NodeId |-> IdForNetwork, Transaction |-> tx,
     References |-> << ZeroHash, ZeroHash >>, RoundNumber |-> 0,
     Timestamp |-> 0, Signatures |-> << >>] : tx \in OfferedTransactions }

\* The orders in which a map over ids can be iterated.
Orders(ids) ==
  { o \in [1..Cardinality(ids) -> ids] :
      \A i, j \in DOMAIN o : i # j => o[i] # o[j] }

\* The successive readings of the clock in the timestamp loop: one, or two
\* of which the second is not before the first.
Readings ==
  { << a >> : a \in 1..MaxTime }
    \cup { r \in { << a, b >> : a \in 0..MaxTime, b \in 1..MaxTime } :
             r[1] <= r[2] }

\* The clock readings of a call that stamps a fresh snapshot: those of the
\* timestamp loop, the reading of the loop over the final rounds, and the
\* order of that loop.
Clocks(ids) ==
  [readings : Readings, now : 1..(MaxTime + 1), order : Orders(ids)]

NoClock == [readings |-> << >>, now |-> 0, order |-> << >>]

\* The collaborator calls that can fail in a call that reports as report
\* when none fails.
ReachedFaults(report) ==
  {"dedup_read"}
    \cup (IF report.outcome = "duplicate" THEN {} ELSE {"validate"})
    \cup (IF report.branch \in {"none", "misaligned", "seal_panic"}
          THEN {} ELSE {"link_read"})
    \cup (IF report.outcome = "finalized" THEN {"write"} ELSE {})
    \cup (IF report.outcome = "sent" THEN {"lock", "send1"} ELSE {})
    \cup (IF report.outcome = "sent" /\ report.sent > 1 THEN {"send2"} ELSE {})

\* ---------------------------------------------------------------- actions
Node ==
  NodeState(CacheRound, FinalRound, FinalCache, SnapshotsPool, ConsensusCache,
            TopoCounter, store)

\* The process runs: its last operation did not panic.
Running == last.ret # "panic"

\* What the last operation was (op), what it reports, whether the store
\* held the transaction of the snapshot it was given (known), and of the
\* snapshot a call went on to sign or verify: its producer (node), how its
\* references stood to the graph (refs), whether it was a fresh one (fresh).
Loaded(ret) ==
  [op |-> "load", known |-> FALSE,
   node |-> "none", refs |-> "none", fresh |-> FALSE,
   ret |-> ret, outcome |-> "loaded", branch |-> "none", written |-> << >>,
   sent |-> 0, stamp |-> 0]

Handled(s, report) ==
  IF report.outcome \in {"dedup_error", "duplicate", "invalid_tx"}
  THEN [op |-> "handle",
        known |-> SnapshotsReadSnapshotByTransactionHash(store, s.Transaction),
        node |-> "none", refs |-> "none", fresh |-> FALSE,
        ret |-> report.ret, outcome |-> report.outcome, branch |-> "none",
        written |-> << >>, sent |-> 0, stamp |-> 0]
  ELSE [op |-> "handle",
        known |-> SnapshotsReadSnapshotByTransactionHash(store, s.Transaction),
        node |-> s.NodeId, refs |-> refCase(CacheRound, FinalRound, s),
        fresh |-> isFresh(clearConsensusSignatures(ConsensusNodes, s)),
        ret |-> report.ret, outcome |-> report.outcome,
        branch |-> report.branch, written |-> report.written,
        sent |-> report.sent, stamp |-> report.stamp]

\* The topological counter a node is constructed with over the store st:
\* the last order written.
LoadTopoCounter(st) == Max({ st[i].TopologicalOrder : i \in DOMAIN st })

\* The graph of a node constructed over the store st: LoadRoundGraph(store),
\* which ends with UpdateFinalCache.
LoadRoundGraph(st, cns) ==
  IF LoadRoundGraphPanics(st, NodeIds(cns))
  THEN /\ last' = Loaded("panic")
       /\ CacheRound' = << >>
       /\ FinalRound' = << >>
       /\ FinalCache' = {}
  ELSE /\ last' = Loaded("nil")
       /\ CacheRound' = LoadCacheRound(st, NodeIds(cns))
       /\ FinalRound' = LoadFinalRound(st, NodeIds(cns))
       /\ FinalCache' = UpdateFinalCache(LoadFinalRound(st, NodeIds(cns)))

\* The node is constructed over the store st: its graph is loaded, its pool
\* and its send cache are empty.
Load(st, cns) ==
  /\ ConsensusNodes' = cns
  /\ store' = st
  /\ LoadRoundGraph(st, cns)
  /\ SnapshotsPool' = << >>
  /\ ConsensusCache' = {}
  /\ TopoCounter' = LoadTopoCounter(st)

\* A call of node.handleSnapshotInput(s).
Handle(s, env) ==
  \E r \in { handleSnapshotInput(ConsensusNodes, Node, s, env) } :
  /\ Cardinality({ p \in DOMAIN r.state.SnapshotsPool :
                     ~ SnapshotsReadSnapshotByTransactionHash(r.state.store,
                                                              p.Transaction) })
       <= MaxPool
  /\ r.state.TopoCounter <= MaxTopo
  /\ CacheRound' = r.state.CacheRound
  /\ FinalRound' = r.state.FinalRound
  /\ FinalCache' = r.state.FinalCache
  /\ SnapshotsPool' = r.state.SnapshotsPool
  /\ ConsensusCache' = r.state.ConsensusCache
  /\ TopoCounter' = r.state.TopoCounter
  /\ store' = r.state.store
  /\ last' = Handled(s, r.report)
  /\ UNCHANGED ConsensusNodes

\* The clock readings a call on s may take: the timestamp loop ends within
\* its readings, and the clock does not run backwards after it.
ClocksFor(s) ==
  IF isFresh(clearConsensusSignatures(ConsensusNodes, s))
  THEN { c \in Clocks(DOMAIN CacheRound) :
           /\ signTimestamp(CacheRound[IdForNetwork], c.readings) # 0
           /\ signTimestamp(CacheRound[IdForNetwork], c.readings) <= c.now }
  ELSE { NoClock }

\* A well-formed snapshot arrives from the network, for the first time or
\* again, or is proposed by this node, and no collaborator fails.
HandleSnapshotInput ==
  /\ Running
  /\ \E s \in HonestSnapshots \cup FreshSnapshots, elapsed \in BOOLEAN :
       \E clock \in ClocksFor(s) :
          /\ elapsed \/ \E c \in ConsensusCache : c[1] = Payload(s)
          /\ Handle(s, [fault |-> "none", elapsed |-> elapsed, clock |-> clock])
  /\ UNCHANGED << anomalies, injected >>

\* A malformed snapshot arrives from the network.
HandleMalformedSnapshot ==
  /\ Running
  /\ anomalies < MaxAnomalies
  /\ anomalies' = anomalies + 1
  /\ \E s \in MalformedSnapshots :
       \E clock \in ClocksFor(s) :
          Handle(s, [fault |-> "none", elapsed |-> TRUE, clock |-> clock])
  /\ UNCHANGED injected

\* A collaborator (the store, the peer, the transaction) fails in the call.
HandleSnapshotInputFailing ==
  /\ Running
  /\ anomalies < MaxAnomalies
  /\ anomalies' = anomalies + 1
  /\ \E s \in HonestSnapshots \cup FreshSnapshots :
       \E clock \in ClocksFor(s) :
          \E run \in { handleSnapshotInput(ConsensusNodes, Node, s,
                          [fault |-> "none", elapsed |-> TRUE, clock |-> clock]) } :
             \E f \in ReachedFaults(run.report) :
                Handle(s, [fault |-> f, elapsed |-> TRUE, clock |-> clock])
  /\ UNCHANGED injected

\* The process stops and starts again over its store.
Restart ==
  /\ anomalies < MaxAnomalies
  /\ anomalies' = anomalies + 1
  /\ Load(store, ConsensusNodes)
  /\ UNCHANGED injected

\* The node constructed over the genesis store of the two validators.
Init ==
  /\ ConsensusNodes = TwoValidators
  /\ store = GenesisStore(TwoValidators)
  /\ last = Loaded("nil")
  /\ CacheRound = LoadCacheRound(GenesisStore(TwoValidators), NodeIds(TwoValidators))
  /\ FinalRound = LoadFinalRound(GenesisStore(TwoValidators), NodeIds(TwoValidators))
  /\ FinalCache = UpdateFinalCache(FinalRound)
  /\ SnapshotsPool = << >>
  /\ ConsensusCache = {}
  /\ TopoCounter = 0
  /\ anomalies = 0
  /\ injected = {}

Next ==
  \/ HandleSnapshotInput
  \/ HandleMalformedSnapshot
  \/ HandleSnapshotInputFailing
  \/ Restart

Spec == Init /\ [][Next]_vars

\* ------------------------------------------------- four-validator network
\* The copies of the snapshots of well-behaved producers that carry one
\* signature, of any one validator.
SingleSigned ==
  UNION { { WithSignatures(p, << Sig(v, p, 0) >>) :
              v \in NodeIds(ConsensusNodes) } :
          p \in HonestPayloads }

\* A copy of a snapshot that carries one validator's signature arrives, no
\* two copies of a snapshot carrying the same one.
HandleSingleSigned ==
  /\ Running
  /\ Cardinality(injected) < MaxInjected
  /\ \E s \in SingleSigned \ injected :
        /\ Handle(s, [fault |-> "none", elapsed |-> TRUE, clock |-> NoClock])
        /\ injected' = injected \cup {s}
  /\ UNCHANGED anomalies

\* The node constructed over the genesis store of the four validators.
InitFour ==
  /\ ConsensusNodes = FourValidators
  /\ store = GenesisStore(FourValidators)
  /\ last = Loaded("nil")
  /\ CacheRound = LoadCacheRound(GenesisStore(FourValidators), NodeIds(FourValidators))
  /\ FinalRound = LoadFinalRound(GenesisStore(FourValidators), NodeIds(FourValidators))
  /\ FinalCache = UpdateFinalCache(FinalRound)
  /\ SnapshotsPool = << >>
  /\ ConsensusCache = {}
  /\ TopoCounter = 0
  /\ anomalies = 0
  /\ injected = {}

NextFour == HandleSingleSigned

SpecFour == InitFour /\ [][NextFour]_vars

\* ----------------------------------------------------------------- claims
\* C1: after LoadRoundGraph and after every handleSnapshotInput call that
\* returns nil, the cache round of every node is numbered one above its
\* final round (cache 1, final 0 at bootstrap).
RoundNumbersAdjacent ==
  last.ret = "nil" =>
    \A n \in DOMAIN CacheRound :
       CacheRound[n].Number = FinalRound[n].Number + 1

\* A call returned nil after it committed a round advance.
RoundAdvanceCommitted ==
  /\ last.op = "handle"
  /\ last.ret = "nil"
  /\ \E n \in DOMAIN CacheRound :
        CacheRound[n].Number = 2 /\ FinalRound[n].Number = 1

\* C2: every snapshot passed to SnapshotsWriteSnapshot carries more than
\* 2*|validators|/3 signatures, each of them verifies over the snapshot's
\* payload under the key of an accepted validator, and no signature value
\* is there twice.
WrittenSignaturesValid ==
  \A w \in Range(last.written) :
     /\ 3 * Len(w.Snapshot.Signatures) > 2 * Len(ConsensusNodes)
     /\ \A i \in DOMAIN w.Snapshot.Signatures :
           \E c \in DOMAIN ConsensusNodes :
              /\ IsAccepted(ConsensusNodes[c])
              /\ Verify(ConsensusNodes[c].id, Payload(w.Snapshot),
                        w.Snapshot.Signatures[i])
     /\ \A i, j \in DOMAIN w.Snapshot.Signatures :
           i # j => w.Snapshot.Signatures[i] # w.Snapshot.Signatures[j]

\* A snapshot was written whose signatures are the sender's followed by the
\* one this node had put into the pool.
WrittenAfterMerge ==
  /\ last.outcome = "finalized"
  /\ last.branch = "merge"
  /\ Len(last.written[1].Snapshot.Signatures) = 2
  /\ last.written[1].Snapshot.Signatures[1].signer # IdForNetwork
  /\ last.written[1].Snapshot.Signatures[2].signer = IdForNetwork

\* The calls in which no collaborator fails and nothing panics end in one of
\* these outcomes.
Undisturbed(outcome) == outcome \in {"finalized", "sent"}

\* C3: a snapshot is persisted only when, as it is written, references[0]
\* is the hash of its producer's final round in the graph, references[1] is
\* the hash of another node's final round, and the two differ.
WrittenReferencesValid ==
  last.outcome = "finalized" => last.refs = "ok"

\* C4: a call on a snapshot of another validator whose references[0] is not
\* its producer's final hash, or whose two references are equal, returns
\* nil, leaves CacheRound and FinalRound as they were, persists nothing and
\* sends nothing (stated of the calls in which no collaborator fails).
BadReferencesChangeNothing ==
  [][ ( /\ last'.op = "handle"
        /\ last'.node \notin {"none", IdForNetwork}
        /\ last'.refs \in {"same", "badself"}
        /\ Undisturbed(last'.outcome) )
      => ( /\ last'.ret = "nil"
           /\ CacheRound' = CacheRound
           /\ FinalRound' = FinalRound
           /\ store' = store
           /\ last'.sent = 0 ) ]_vars

\* The sequences that hold the elements of seq in some order.
Reorderings(seq) ==
  { [i \in DOMAIN seq |-> seq[f[i]]] :
      f \in { g \in [DOMAIN seq -> DOMAIN seq] :
                \A i, j \in DOMAIN seq : i # j => g[i] # g[j] } }

\* C5: asFinal gives a cache round the same hash whatever the order its
\* snapshots were put in, equal timestamps included.
asFinalOrderIndependent ==
  \A n \in DOMAIN CacheRound :
     \A p \in Reorderings(CacheRound[n].Snapshots) :
        asFinal([CacheRound[n] EXCEPT !.Snapshots = p]).Hash
          = asFinal(CacheRound[n]).Hash

\* C6: the hash loadFinalRoundForNode computes from the store for a node's
\* sealed round is the one asFinal gave that round while the node ran.
FinalHashesReloadable ==
  \A n \in DOMAIN FinalRound :
     /\ ~ loadFinalRoundForNodePanics(store, n, FinalRound[n].Number)
     /\ loadFinalRoundForNode(store, n, FinalRound[n].Number).Hash
          = FinalRound[n].Hash

\* C7: the snapshots of one producer are persisted with timestamps that
\* never decrease.
PersistedTimestampsOrdered ==
  \A i, j \in DOMAIN store :
     (i < j /\ store[i].Snapshot.NodeId = store[j].Snapshot.NodeId)
       => store[i].Snapshot.Timestamp <= store[j].Snapshot.Timestamp

\* C8: a snapshot is persisted with round links that are not below what
\* SnapshotsReadRoundLink returned for its producer before the write.
RoundLinksNeverLowered ==
  [][ last'.outcome = "finalized" =>
        \A w \in Range(last'.written) :
           \A x \in DOMAIN w.RoundLinks :
              w.RoundLinks[x] >= SnapshotsReadRoundLink(store, w.Snapshot.NodeId, x)
    ]_vars

\* C9: while a node runs, the topological order given to a write is above
\* the counter as the call found it, the counter never steps back, and it
\* is never below an order given to a write, failed or not: the orders of
\* successive writes strictly increase.
TopologicalOrderIncreases ==
  /\ [](\A i \in DOMAIN store : store[i].TopologicalOrder <= TopoCounter)
  /\ [][ last'.op = "handle" =>
           /\ TopoCounter' >= TopoCounter
           /\ \A w \in Range(last'.written) :
                 /\ w.TopologicalOrder > TopoCounter
                 /\ w.TopologicalOrder <= TopoCounter' ]_vars

\* A snapshot was written with an order that skips the one of a write that
\* had failed.
WrittenAfterFailedWrite ==
  /\ last.outcome = "finalized"
  /\ last.written[1].TopologicalOrder
       > Cardinality({ i \in DOMAIN store : store[i].TopologicalOrder > 0 })

\* C10: signSnapshot gives a fresh snapshot of this node a timestamp above
\* End of this node's cache round.
FreshTimestampAfterEnd ==
  [][ last'.fresh => last'.stamp > CacheRound[IdForNetwork].End ]_vars

\* A fresh snapshot was stamped and sent when this node's cache round had
\* snapshots stamped before.
FreshStampedAgain ==
  /\ last.fresh
  /\ last.outcome = "sent"
  /\ last.stamp > 1
  /\ CacheRound[IdForNetwork].End = last.stamp

\* C11: a call on a snapshot whose transaction the store already holds
\* returns nil and leaves the round graph, the final cache, the signature
\* pool, the send cache, the topological counter and the store as they
\* were, and sends nothing.
PersistedAgainChangesNothing ==
  [][ (last'.op = "handle" /\ last'.known)
      => ( /\ last'.ret = "nil"
           /\ last'.sent = 0
           /\ last'.written = << >>
           /\ UNCHANGED << CacheRound, FinalRound, FinalCache, SnapshotsPool,
                           ConsensusCache, TopoCounter, store >> ) ]_vars

\* A snapshot that had been persisted through the pool was given again and
\* dropped as a duplicate.
PersistedGivenAgain ==
  /\ last.op = "handle"
  /\ last.known
  /\ last.outcome = "duplicate"
  /\ \E p \in DOMAIN SnapshotsPool :
        \E i \in DOMAIN store : Payload(store[i].Snapshot) = p

\* The copies of the snapshot with payload p among the copies inj.
Copies(inj, p) == { c \in inj : Payload(c) = p }

\* C12: with four validators and copies of a snapshot that carry one
\* signature each, of different validators, the snapshot is persisted in
\* the call on the third copy and not in the call on the first or the
\* second: a call that persists is the one on the third copy.
PersistedAtThirdCopy ==
  [][ (last'.op = "handle" /\ last'.outcome = "finalized")
      => Cardinality(Copies(injected', Payload(last'.written[1].Snapshot))) = 3
    ]_vars

\* C12 as the code has it: this node's own signature, made when it co-signs
\* the first copy, counts.  A call that persists a snapshot of another
\* validator is the one on the second copy when no copy so far carried this
\* node's signature and on the third when one did, never the one on the
\* first; it appends the snapshot to the producer's cache round, sets End to
\* its timestamp and changes no final round number.
PersistedWhenThreeSignaturesMet ==
  [][ (last'.op = "handle" /\ last'.outcome = "finalized")
      => LET w == last'.written[1]
             n == w.Snapshot.NodeId
             C == Copies(injected', Payload(w.Snapshot))
         IN /\ n # IdForNetwork
            /\ Cardinality(C) =
                  IF \E c \in C : c.Signatures[1].signer = IdForNetwork
                  THEN 3 ELSE 2
            /\ Len(w.Snapshot.Signatures) = 3
            /\ store' = Append(store, w)
            /\ CacheRound'[n].Snapshots = Append(CacheRound[n].Snapshots, w.Snapshot)
            /\ CacheRound'[n].End = w.Snapshot.Timestamp
            /\ \A v \in DOMAIN FinalRound :
                  FinalRound'[v].Number = FinalRound[v].Number ]_vars

\* A snapshot was persisted in the call on its second copy, the signatures
\* written being the second copy's, the first copy's and this node's.
PersistedAtSecondCopy ==
  /\ Len(ConsensusNodes) = 4
  /\ last.outcome = "finalized"
  /\ Cardinality(Copies(injected, Payload(last.written[1].Snapshot))) = 2
  /\ last.written[1].Snapshot.Signatures[3].signer = IdForNetwork

\* C13: a call on a snapshot of producer N stamped at or after
\* CacheRound[N].Start + SnapshotRoundGap, made while CacheRound[N] holds a
\* snapshot, seals that cache round into FinalRound[N] (its number, the hash
\* of asFinal) and opens the cache round of the next number with Start and
\* End at the snapshot's timestamp, whatever signatures the snapshot or the
\* pool carry (stated of the calls in which no collaborator fails).
RoundAdvanceSeals ==
  [][ ( /\ last'.op = "handle"
        /\ last'.node # "none"
        /\ Undisturbed(last'.outcome)
        /\ last'.stamp >= CacheRound[last'.node].Start + SnapshotRoundGap
        /\ Len(CacheRound[last'.node].Snapshots) # 0 )
      => ( /\ FinalRound'[last'.node] = asFinal(CacheRound[last'.node])
           /\ CacheRound'[last'.node].Number = CacheRound[last'.node].Number + 1
           /\ CacheRound'[last'.node].Start = last'.stamp
           /\ CacheRound'[last'.node].End = last'.stamp ) ]_vars

\* C14: a call in which verifySnapshot finds the snapshot's round number
\* different from the cache round's or its timestamp before the cache
\* round's End leaves CacheRound and FinalRound of the producer as they
\* were, persists nothing, does not co-sign the snapshot and sends nothing.
MisalignedChangesNothing ==
  [][ (last'.op = "handle" /\ last'.branch = "misaligned")
      => ( /\ CacheRound'[last'.node] = CacheRound[last'.node]
           /\ FinalRound'[last'.node] = FinalRound[last'.node]
           /\ store' = store
           /\ SnapshotsPool' = SnapshotsPool
           /\ last'.sent = 0 ) ]_vars

\* C15: every snapshot in the cache round of a validator N is a snapshot of
\* N, carries the cache round's number, and is stamped between the cache
\* round's Start and End.
CacheRoundMembership ==
  \A n \in DOMAIN CacheRound :
     \A i \in DOMAIN CacheRound[n].Snapshots :
        LET s == CacheRound[n].Snapshots[i] IN
        /\ s.NodeId = n
        /\ s.RoundNumber = CacheRound[n].Number
        /\ CacheRound[n].Start <= s.Timestamp
        /\ s.Timestamp <= CacheRound[n].End

\* C16: every snapshot of every cache round meets the finalization
\* threshold, so that no timestamp makes a seal find a snapshot that is not
\* finalized and no call ends in the panic of the seal; and a call that
\* changes the final round of a node seals a cache round that holds a
\* snapshot and only finalized ones.
SealedOnlyWhenFinalized ==
  /\ [](/\ \A n \in DOMAIN CacheRound :
             /\ \A i \in DOMAIN CacheRound[n].Snapshots :
                   verifyFinalization(ConsensusNodes, CacheRound[n].Snapshots[i])
             /\ \A ts \in 0..(MaxTime + 1) :
                   ~ SealPanics(ConsensusNodes, CacheRound[n], ts)
         /\ last.branch # "seal_panic")
  /\ [][ last'.op = "handle" =>
           \A n \in DOMAIN FinalRound :
              FinalRound'[n] # FinalRound[n] =>
                /\ Len(CacheRound[n].Snapshots) # 0
                /\ \A i \in DOMAIN CacheRound[n].Snapshots :
                      verifyFinalization(ConsensusNodes, CacheRound[n].Snapshots[i])
                /\ FinalRound'[n] = asFinal(CacheRound[n]) ]_vars

\* A call sealed a cache round of finalized snapshots into the final round
\* of its snapshot's producer.
FinalizedRoundSealed ==
  /\ last.op = "handle"
  /\ last.node # "none"
  /\ FinalRound[last.node].Number = 1
  /\ Len(FinalRound[last.node].Hash.hashes) > 0
  /\ FinalRound[last.node].End >= FinalRound[last.node].Start
  /\ CacheRound[last.node].Snapshots = << >>

\* C17: a call in which SnapshotsWriteSnapshot fails, or SendSnapshotMessage
\* fails, returns the error and leaves CacheRound and FinalRound of every
\* validator as they were before the call.
FailedCallCommitsNothing ==
  [][ (last'.op = "handle" /\ last'.outcome \in {"write_error", "send_error"})
      => ( /\ last'.ret = "err"
           /\ CacheRound' = CacheRound
           /\ FinalRound' = FinalRound
           /\ store' = store ) ]_vars

\* A call failed in its send after it had proposed a round advance, or in
\* its write after it had appended to its copy of a cache round, and the
\* graph holds neither.
ProposalDiscarded ==
  /\ last.op = "handle"
  /\ \/ /\ last.outcome = "send_error"
        /\ last.stamp >= CacheRound[last.node].Start + SnapshotRoundGap
        /\ Len(CacheRound[last.node].Snapshots) # 0
     \/ /\ last.outcome = "write_error"
        /\ \A i \in DOMAIN CacheRound[last.node].Snapshots :
              CacheRound[last.node].Snapshots[i] # last.written[1].Snapshot

\* C18: after LoadRoundGraph and after every return of handleSnapshotInput,
\* FinalCache holds one entry per validator, which is NodeId, Number and
\* Start of that validator's entry in FinalRound.
FinalCacheConsistent ==
  ~ (last.op = "load" /\ last.ret = "panic") =>
    /\ DOMAIN FinalRound = NodeIds(ConsensusNodes)
    /\ Cardinality(FinalCache) = Len(ConsensusNodes)
    /\ \A n \in DOMAIN FinalRound :
          /\ FinalRound[n].NodeId = n
          /\ \E e \in FinalCache :
                /\ e = [NodeId |-> n, Number |-> FinalRound[n].Number,
                        Start |-> FinalRound[n].Start]
                /\ \A x \in FinalCache : x.NodeId = n => x = e

\* A call committed a sealed round and the final cache shows it.
FinalCacheShowsSeal ==
  /\ last.op = "handle"
  /\ last.node # "none"
  /\ \E e \in FinalCache :
        e.NodeId = last.node /\ e.Number = 1 /\ e.Start = FinalRound[last.node].Start

\* C19: a call of handleSnapshotInput leaves every payload hash of the
\* signature pool in the pool, with every signature it held.
PoolOnlyGrows ==
  [][ last'.op = "handle" =>
        \A p \in DOMAIN SnapshotsPool :
           /\ p \in DOMAIN SnapshotsPool'
           /\ Range(SnapshotsPool[p]) \subseteq Range(SnapshotsPool'[p]) ]_vars

\* The accepted validators whose key verifies a signature of s.
Signers(cns, s) ==
  { c \in DOMAIN cns :
      /\ IsAccepted(cns[c])
      /\ \E i \in DOMAIN s.Signatures :
            Verify(cns[c].id, Payload(s), s.Signatures[i]) }

\* C20: every snapshot the handler persisted carries signatures of more
\* than 2/3 of the validators, a validator that signed several times
\* counting once.
PersistedBySupermajority ==
  \A i \in DOMAIN store :
     store[i].TopologicalOrder > 0 =>
       3 * Cardinality(Signers(ConsensusNodes, store[i].Snapshot))
         > 2 * Len(ConsensusNodes)
====
